---- MODULE Spec2Model ----
(***************************************************************************)
(* A model of the VRPC Remote (vrpc/VrpcRemote.js) and Agent               *)
(* (vrpc/VrpcAgent.js): the Remote's correlator and tunnel table (one      *)
(* EventEmitter keyed by id), its per-call timers, its discovery tree and  *)
(* its message handler; the Agent's connect options and connect handler;   *)
(* and the broker's retained messages and last-will between them.          *)
(***************************************************************************)
EXTENDS Integers, Sequences, FiniteSets, TLC

(***************************************************************************)
(* Bounds of the model.                                                    *)
(***************************************************************************)
\* Values the counter _invokeId takes before the caller stops issuing calls.
MaxInvoke == 2
\* The same, in the runs that follow one proxy through repeated registrations.
MaxInvokeDeep == 3
\* Messages the Agent side may send to the Remote.
MaxMsgs == 3
\* Largest number of positional arguments of a decoded callback message.
MaxArgs == 10
\* Discovery messages the broker forwards to the Remote (discovery model).
MaxInfo == 4
\* Calls of reconnectWithToken in a run (connection model).
MaxReconnect == 1
\* Promises of reconnectWithToken, end and the query operations in a run.
MaxWaits == 2
\* Messages the Agent's message handler runs on (Agent model).
MaxAgentMsgs == 3

(***************************************************************************)
(* Names.                                                                  *)
(***************************************************************************)
Undefined == "undefined"
\* A message of length 0 (what clearing a retained message delivers).
Empty == [length |-> 0]
Instance == "ab12"
Hostname == "host"
Domain == "d"
AgentName == "a1"
ClassName == "Foo"
Static == "__static__"
Info == "__info__"
AgentClass == "__agent__"

\* A string from its characters.
RECURSIVE Str(_)
Str(cs) == IF cs = << >> THEN "" ELSE Head(cs) \o Str(Tail(cs))

EmptyMap == << >>

Get(obj, key) == IF key \in DOMAIN obj THEN obj[key] ELSE Undefined

Put(obj, key, val) == [k \in DOMAIN obj \cup {key} |-> IF k = key THEN val ELSE obj[k]]

Remove(obj, key) == [k \in DOMAIN obj \ {key} |-> obj[k]]

\* JavaScript truthiness of the values the model uses.
Truthy(v) == v # Undefined /\ v # ""

(***************************************************************************)
(* Ids and topics.                                                         *)
(***************************************************************************)
\* An id that does not take the counter's value.
CorrIdFixed(n) == Instance \o "-" \o ToString(0)

CorrId(n) == Instance \o "-" \o ToString(n)

VrpcClientId == <<Domain, Hostname, Instance>>

InfoTopic(domain, agent, klass) == <<domain, agent, klass, Static, Info>>

AgentInfoTopic(domain, agent) == InfoTopic(domain, agent, AgentClass)

OnTunnelId(proxyId, functionName, index, event) ==
  "__f__" \o proxyId \o "-" \o functionName \o "-" \o ToString(index) \o "-" \o event

OnceTunnelId(proxyId, functionName, index, n) ==
  "__f__" \o proxyId \o "-" \o functionName \o "-" \o ToString(index) \o "-" \o ToString(n)

PromiseTokens == {"__p__1"}

HasPromisePrefix(ret) == ret \in PromiseTokens

(***************************************************************************)
(* Values.  Arguments of a call are typed values; function names and       *)
(* signatures are kept as character sequences where the code looks inside  *)
(* them.                                                                   *)
(***************************************************************************)
StringArg(s) == [t |-> "string", v |-> s, event |-> ""]
FunctionArg(h) == [t |-> "function", v |-> h, event |-> ""]
EmitterArg(em, ev) == [t |-> "emitter", v |-> em, event |-> ev]

IsFunction(value) == value.t = "function"

IsEmitter(value) == value.t = "emitter"

\* String.prototype.indexOf for one character, 0-based, -1 when absent.
IndexOf(cs, ch) ==
  IF \E i \in 1..Len(cs) : cs[i] = ch
  THEN (CHOOSE i \in 1..Len(cs) : cs[i] = ch /\ \A j \in 1..(i - 1) : cs[j] # ch) - 1
  ELSE -1

\* A stripping that keeps the name as it is.
StripNothing(method) == method

StripSignature(method) ==
  LET pos == IndexOf(method, "-")
  IN IF pos > 0 THEN SubSeq(method, 1, pos) ELSE method

Range(f) == {f[i] : i \in DOMAIN f}

(***************************************************************************)
(* Decoding of a callback message: Object.keys(data).sort(), the keys      *)
(* beginning with "_", their values.  Keys are compared by code units, as  *)
(* Array.prototype.sort does for strings.                                  *)
(***************************************************************************)
ArgKey(i) == "_" \o ToString(i)

\* The decimal digits of i as code units ("0" is 48).
RECURSIVE DigitCodes(_)
DigitCodes(i) == IF i < 10 THEN <<48 + i>> ELSE DigitCodes(i \div 10) \o <<48 + (i % 10)>>

\* The code units of the keys a data object may have: "e" is 101, "r" is 114, "_" is 95.
CodeUnits(key) ==
  IF key = "e" THEN <<101>>
  ELSE IF key = "r" THEN <<114>>
  ELSE LET i == CHOOSE i \in 1..(MaxArgs + 1) : ArgKey(i) = key IN <<95>> \o DigitCodes(i)

\* a sorts before b.
RECURSIVE CodeLess(_, _)
CodeLess(a, b) ==
  IF a = << >> THEN b # << >>
  ELSE IF b = << >> THEN FALSE
  ELSE IF Head(a) # Head(b) THEN Head(a) < Head(b)
  ELSE CodeLess(Tail(a), Tail(b))

RECURSIVE SortKeysAsc(_)
SortKeysAsc(keys) ==
  IF keys = {} THEN << >>
  ELSE LET k == CHOOSE k \in keys : \A o \in keys \ {k} : CodeLess(CodeUnits(k), CodeUnits(o))
       IN <<k>> \o SortKeysAsc(keys \ {k})

SortKeys(keys) == SortKeysAsc(keys)

IsArgKey(key) == CodeUnits(key)[1] = 95

\* A decoding that takes every key of data.
DecodeArgsUnfiltered(data) ==
  LET sorted == SortKeys(DOMAIN data)
  IN [i \in 1..Len(sorted) |-> data[sorted[i]]]

DecodeArgs(data) ==
  LET sorted == SortKeys(DOMAIN data)
      picked == SelectSeq(sorted, IsArgKey)
  IN [i \in 1..Len(picked) |-> data[picked[i]]]

(***************************************************************************)
(* The EventEmitter this._eventEmitter.                                    *)
(***************************************************************************)
Listener(kind, once, call, sink, event) ==
  [kind |-> kind, once |-> once, call |-> call, sink |-> sink, event |-> event]

ListenersOf(ls, id) == IF id \in DOMAIN ls THEN ls[id] ELSE << >>

AddListener(ls, id, l) == Put(ls, id, Append(ListenersOf(ls, id), l))

RemoveAllListeners(ls, id) == Remove(ls, id)

\* Removal of the first registration of l under id (what a once-wrapper does to itself).
RemoveListener(ls, id, l) ==
  LET cur == ListenersOf(ls, id)
      at == IF \E i \in 1..Len(cur) : cur[i] = l
            THEN CHOOSE i \in 1..Len(cur) : cur[i] = l /\ \A j \in 1..(i - 1) : cur[j] # l
            ELSE 0
      rest == IF at = 0 THEN cur ELSE SubSeq(cur, 1, at - 1) \o SubSeq(cur, at + 1, Len(cur))
  IN IF rest = << >> THEN Remove(ls, id) ELSE Put(ls, id, rest)

VARIABLES
  connected,   \* this._client.connected
  invokeId,    \* this._invokeId
  listeners,   \* this._eventEmitter: id -> listeners, in registration order
  timers,      \* armed setTimeout timers of calls
  calls,       \* the promises handed to callers, by the counter value of the call
  proxies,     \* proxies built by _createProxy, by the call that created them
  domains,     \* this._domains
  invoked,     \* local sinks (callbacks, emitters): deliveries received
  emitted,     \* 'agent' and 'class' events emitted by the Remote
  inbox,       \* messages the broker has in flight to the Remote
  heard,       \* messages the 'message' handler has run on so far
  dropped,     \* ids of the messages that found no listener
  agentConn,   \* the Agent's connection to the broker
  will,        \* the last-will the broker holds for the Agent's session
  retained,    \* the broker's retained messages, by topic
  agentSubs,   \* the topics the Agent's client has subscribed
  sortIn,      \* decoding model: the data object of a callback message
  sortOut,     \* decoding model: the arguments the sink received
  conn,        \* this._client: its generation, its phase and whether 200 ms passed since its connect
  waits,       \* promises of reconnectWithToken, end and the query operations
  thrown,      \* errors thrown to callers before any request was built
  adapter,     \* the Adapter of the Agent: live instances and the calls it received
  agentOut,    \* messages the Agent published to senders
  agentIn      \* messages the Agent's 'message' handler has run on

remoteVars == <<connected, invokeId, listeners, timers, calls, proxies, domains, invoked, emitted>>
netVars == <<inbox, heard, dropped>>
agentVars == <<agentConn, will, retained, agentSubs>>
sortVars == <<sortIn, sortOut>>
connVars == <<conn, waits, thrown>>
adapterVars == <<adapter, agentOut, agentIn>>
vars == <<remoteVars, netVars, agentVars, sortVars, connVars, adapterVars>>

(***************************************************************************)
(* The Remote's state as one record, for the operators that compute what a *)
(* handler does.                                                           *)
(***************************************************************************)
RemoteState ==
  [listeners |-> listeners, timers |-> timers, calls |-> calls, proxies |-> proxies,
   domains |-> domains, invoked |-> invoked, emitted |-> emitted, invokeId |-> invokeId]

ProxyTimeoutMsg == "Proxy creation timed out"
CallTimeoutMsg == "Function call timed out"
TypeErrorMsg == "TypeError"

\* A caller's promise: reject(...) or resolve(value) of the promise executor.  Only the
\* first call on a pending promise has an effect; every call is counted.
Settle(cs, c, stage, value) ==
  [cs EXCEPT ![c] = [@ EXCEPT !.completed = @ + 1,
                              !.stage = IF cs[c].stage = "waiting" THEN stage ELSE @,
                              !.outcome = IF cs[c].stage = "waiting" THEN value ELSE @]]

\* resolve(promise): the caller's promise follows the inner promise from now on.
Chain(cs, c) ==
  [cs EXCEPT ![c] = [@ EXCEPT !.stage = IF cs[c].stage = "waiting" THEN "chained" ELSE @]]

\* resolve or reject of the inner promise of a promise token.
SettleInner(cs, c, stage, value) ==
  [cs EXCEPT ![c] = [@ EXCEPT !.completed = @ + 1,
                              !.stage = IF cs[c].stage = "chained" THEN stage ELSE @,
                              !.outcome = IF cs[c].stage = "chained" THEN value ELSE @]]

\* _createProxy: the proxy of call c, or the TypeError of reading a class the tree lacks.
HasClass(tree, domain, agent, klass) ==
  /\ domain \in DOMAIN tree
  /\ agent \in DOMAIN tree[domain].agents
  /\ klass \in DOMAIN tree[domain].agents[agent].classes
  /\ "memberFunctions" \in DOMAIN tree[domain].agents[agent].classes[klass]

ProxyMethods(tree, domain, agent, klass) ==
  {StripSignature(f) : f \in Range(tree[domain].agents[agent].classes[klass].memberFunctions)}

CreateProxy(st, c, data, proxyId) ==
  LET call == st.calls[c]
  IN IF HasClass(st.domains, call.domain, call.agent, call.klass)
     THEN [st EXCEPT
             !.proxies = Put(@, c, [targetId |-> Get(data, "r"), proxyId |-> proxyId,
                                    domain |-> call.domain, agent |-> call.agent,
                                    klass |-> call.klass,
                                    methods |-> ProxyMethods(st.domains, call.domain,
                                                             call.agent, call.klass)]),
             !.calls = Settle(@, c, "resolved", "proxy")]
     ELSE [st EXCEPT !.calls = Settle(@, c, "rejected", TypeErrorMsg)]

\* The once-listener of _getProxy.
ProxyListener(st, l, data, proxyId) ==
  LET st1 == [st EXCEPT !.timers = @ \ {l.call}]
  IN IF Truthy(Get(data, "e"))
     THEN [st1 EXCEPT !.calls = Settle(@, l.call, "rejected", data["e"])]
     ELSE CreateProxy(st1, l.call, data, proxyId)

\* A listener that hands the token to the caller as the call's result.
AnswerListenerResolvesToken(st, l, data) ==
  LET st1 == [st EXCEPT !.timers = @ \ {l.call}]
  IN IF Truthy(Get(data, "e"))
     THEN [st1 EXCEPT !.calls = Settle(@, l.call, "rejected", data["e"])]
     ELSE [st1 EXCEPT !.calls = Settle(@, l.call, "resolved", Get(data, "r"))]

\* The once-listener of _handleAgentAnswer.
AnswerListener(st, l, data) ==
  LET st1 == [st EXCEPT !.timers = @ \ {l.call}]
      ret == Get(data, "r")
  IN IF Truthy(Get(data, "e"))
     THEN [st1 EXCEPT !.calls = Settle(@, l.call, "rejected", data["e"])]
     ELSE IF HasPromisePrefix(ret)
     THEN [st1 EXCEPT !.listeners = AddListener(@, ret, Listener("promise", TRUE, l.call, "", "")),
                      !.calls = Chain(@, l.call)]
     ELSE [st1 EXCEPT !.calls = Settle(@, l.call, "resolved", ret)]

\* The once-listener a promise token installs.
PromiseListener(st, l, promiseData) ==
  IF Truthy(Get(promiseData, "e"))
  THEN [st EXCEPT !.calls = SettleInner(@, l.call, "rejected", promiseData["e"])]
  ELSE [st EXCEPT !.calls = SettleInner(@, l.call, "resolved", Get(promiseData, "r"))]

\* The listeners _packData registers: value.apply(null, args), emitter.emit(event, ...args).
SinkKey(l) == IF l.kind = "emitter" THEN l.sink \o "." \o l.event ELSE l.sink

TunnelListener(st, l, data) ==
  LET sink == SinkKey(l)
      before == IF sink \in DOMAIN st.invoked THEN st.invoked[sink].count ELSE 0
  IN [st EXCEPT !.invoked = Put(@, sink, [count |-> before + 1, args |-> DecodeArgs(data)])]

RunListener(st, l, data, proxyId) ==
  CASE l.kind = "proxy" -> ProxyListener(st, l, data, proxyId)
    [] l.kind = "answer" -> AnswerListener(st, l, data)
    [] l.kind = "promise" -> PromiseListener(st, l, data)
    [] OTHER -> TunnelListener(st, l, data)

\* EventEmitter.emit: the listeners registered at the time of the call, in order;
\* a once-listener is removed before it runs.
RECURSIVE RunListeners(_, _, _, _, _)
RunListeners(st, id, ls, data, proxyId) ==
  IF ls = << >> THEN st
  ELSE LET l == Head(ls)
           st1 == IF l.once THEN [st EXCEPT !.listeners = RemoveListener(@, id, l)] ELSE st
       IN RunListeners(RunListener(st1, l, data, proxyId), id, Tail(ls), data, proxyId)

Emit(st, id, data, proxyId) == RunListeners(st, id, ListenersOf(st.listeners, id), data, proxyId)

(***************************************************************************)
(* The client's 'message' handler.                                         *)
(***************************************************************************)
Token(tokens, i) == IF i <= Len(tokens) THEN tokens[i] ELSE Undefined

NewAgentEntry == [classes |-> EmptyMap, status |-> Undefined, hostname |-> Undefined]

CreateIfNotExist(tree, domain, agent) ==
  LET t1 == IF domain \in DOMAIN tree THEN tree ELSE Put(tree, domain, [agents |-> EmptyMap])
  IN IF agent \in DOMAIN t1[domain].agents THEN t1
     ELSE [t1 EXCEPT ![domain].agents = Put(@, agent, NewAgentEntry)]

\* A branch that builds the agent's entry anew from the presence message.
AgentInfoBranchFresh(st, domain, agent, json) ==
  LET status == Get(json, "status")
      hostname == Get(json, "hostname")
      t1 == CreateIfNotExist(st.domains, domain, agent)
  IN [st EXCEPT
        !.domains = [t1 EXCEPT ![domain].agents[agent] =
                       [classes |-> EmptyMap, status |-> status, hostname |-> hostname]],
        !.emitted = Append(@, [event |-> "agent", domain |-> domain, agent |-> agent,
                               status |-> status, hostname |-> hostname])]

AgentInfoBranch(st, domain, agent, json) ==
  LET status == Get(json, "status")
      hostname == Get(json, "hostname")
      t1 == CreateIfNotExist(st.domains, domain, agent)
  IN [st EXCEPT
        !.domains = [t1 EXCEPT ![domain].agents[agent].status = status,
                               ![domain].agents[agent].hostname = hostname],
        !.emitted = Append(@, [event |-> "agent", domain |-> domain, agent |-> agent,
                               status |-> status, hostname |-> hostname])]

ClassEvent(domain, agent, json) ==
  [event |-> "class", domain |-> domain, agent |-> agent,
   className |-> Get(json, "className"), instances |-> Get(json, "instances"),
   memberFunctions |-> Get(json, "memberFunctions"),
   staticFunctions |-> Get(json, "staticFunctions")]

\* A branch that keeps the class entry it already has.
ClassInfoBranchKeepsFirst(st, domain, agent, klass, json) ==
  LET t1 == CreateIfNotExist(st.domains, domain, agent)
  IN [st EXCEPT
        !.domains = [t1 EXCEPT ![domain].agents[agent].classes =
                                  IF klass \in DOMAIN @ THEN @ ELSE Put(@, klass, json)],
        !.emitted = Append(@, ClassEvent(domain, agent, json))]

ClassInfoBranch(st, domain, agent, klass, json) ==
  LET t1 == CreateIfNotExist(st.domains, domain, agent)
  IN [st EXCEPT
        !.domains = [t1 EXCEPT ![domain].agents[agent].classes = Put(@, klass, json)],
        !.emitted = Append(@, ClassEvent(domain, agent, json))]

\* A handler that hands the data to the oldest registered id when the id is unknown.
RpcBranchFallback(st, json, proxyId) ==
  Emit(st, IF json.id \in DOMAIN st.listeners \/ DOMAIN st.listeners = {} THEN json.id
           ELSE CHOOSE id \in DOMAIN st.listeners : TRUE,
       json.data, proxyId)

RpcBranch(st, json, proxyId) == Emit(st, json.id, json.data, proxyId)

OnMessage(st, topic, message, proxyId) ==
  IF message = Empty THEN st
  ELSE LET domain == Token(topic, 1)
           agent == Token(topic, 2)
           klass == Token(topic, 3)
           instance == Token(topic, 4)
           func == Token(topic, 5)
       IN IF func = Info /\ instance = Static
          THEN IF klass = AgentClass
               THEN AgentInfoBranch(st, domain, agent, message)
               ELSE ClassInfoBranch(st, domain, agent, klass, message)
          ELSE RpcBranch(st, message, proxyId)

(***************************************************************************)
(* _packData: the wire data of a call's arguments and the tunnel listeners *)
(* it registers.  pk = [data, listeners, invokeId, tunnels].               *)
(***************************************************************************)
\* this._eventEmitter.on(id, ...) of an `on` registration and
\* this._eventEmitter.once(id, ...) of a regular function callback.
OnCallbackListener(sink) == Listener("callback", FALSE, -1, sink, "")

RegularCallbackListenerKept(sink) == Listener("callback", FALSE, -1, sink, "")

RegularCallbackListener(sink) == Listener("callback", TRUE, -1, sink, "")

PackOne(pk, proxyId, functionName, args, index) ==
  LET value == args[index + 1]
      key == "_" \o ToString(index + 1)
  IN IF IsFunction(value)
     THEN IF functionName = "on" /\ index = 1 /\ args[1].t = "string"
          THEN LET id == OnTunnelId(proxyId, functionName, index, args[1].v)
               IN [pk EXCEPT !.data = Put(@, key, id),
                             !.tunnels = @ \cup {id},
                             !.listeners = AddListener(@, id, OnCallbackListener(value.v))]
          ELSE LET id == OnceTunnelId(proxyId, functionName, index, pk.invokeId)
               IN [pk EXCEPT !.data = Put(@, key, id),
                             !.tunnels = @ \cup {id},
                             !.invokeId = @ + 1,
                             !.listeners = AddListener(@, id, RegularCallbackListener(value.v))]
     ELSE IF IsEmitter(value)
     THEN LET id == OnTunnelId(proxyId, functionName, index, value.event)
          IN [pk EXCEPT !.data = Put(@, key, id),
                        !.tunnels = @ \cup {id},
                        !.listeners = AddListener(@, id, Listener("emitter", FALSE, -1, value.v, value.event))]
     ELSE [pk EXCEPT !.data = Put(@, key, value.v)]

RECURSIVE PackFrom(_, _, _, _, _)
PackFrom(pk, proxyId, functionName, args, index) ==
  IF index >= Len(args) THEN pk
  ELSE PackFrom(PackOne(pk, proxyId, functionName, args, index), proxyId, functionName, args, index + 1)

PackData(ls, counter, proxyId, functionName, args) ==
  PackFrom([data |-> EmptyMap, listeners |-> ls, invokeId |-> counter, tunnels |-> {}],
           proxyId, functionName, args, 0)

(***************************************************************************)
(* Inputs of the model.                                                    *)
(***************************************************************************)
\* The constructor's domain and agent (agent left at its default).
RemoteDomain == Domain
RemoteAgent == "*"

ProxyIds == {"p1"}


on == <<"o", "n">>
inc == <<"i", "n", "c">>
incNumber == <<"i", "n", "c", "-", "n">>

ClassInfos ==
  {[className |-> ClassName, instances |-> << >>, memberFunctions |-> <<on, inc, incNumber>>,
    staticFunctions |-> <<inc>>]}

ReplyData == {("r" :> "i1"), ("r" :> "__p__1"), ("e" :> "boom")}

PromiseData == {("r" :> "done"), ("e" :> "boom")}

TunnelData == {("_1" :> "42") @@ ("_2" :> "x") @@ ("r" :> "ret")}

ArgLists ==
  {<< >>, <<FunctionArg("h1")>>, <<StringArg("data"), FunctionArg("h1")>>,
   <<EmitterArg("E1", "data")>>}

RpcMessage(id, data) == [topic |-> VrpcClientId, payload |-> [id |-> id, data |-> data]]

InfoMessage(topic, payload) == [topic |-> topic, payload |-> payload]

\* MQTT topic filter with "+" for one level.
Matches(filter, topic) ==
  /\ Len(filter) = Len(topic)
  /\ \A i \in 1..Len(filter) : filter[i] = "+" \/ filter[i] = topic[i]

DiscoveryFilter ==
  <<IF RemoteDomain = "*" THEN "+" ELSE RemoteDomain,
    IF RemoteAgent = "*" THEN "+" ELSE RemoteAgent, "+", Static, Info>>

RemoteReceives(topic) == Matches(DiscoveryFilter, topic) \/ topic = VrpcClientId

(***************************************************************************)
(* Calls.                                                                  *)
(***************************************************************************)
\* via: the function that awaits the reply, "_getProxy" (create, getInstance) or
\* "_handleAgentAnswer" (delete, callStatic, a proxy method, which has a proxy).
\* target: the proxy a delete() was given as its instance, -1 otherwise.
NewCall(via, domain, agent, klass, tunnels, proxy) ==
  [via |-> via, stage |-> IF proxy # -1 \/ connected THEN "ready" ELSE "connecting",
   completed |-> 0, fires |-> 0, outcome |-> Undefined,
   domain |-> domain, agent |-> agent, klass |-> klass,
   tunnels |-> tunnels, proxy |-> proxy, target |-> -1]

Published(c) == c \in DOMAIN calls /\ calls[c].stage \notin {"connecting", "settle", "ready"}

Pending(c) == c \in DOMAIN calls /\ calls[c].stage \in {"waiting", "chained"}

Done(c) == c \in DOMAIN calls /\ calls[c].stage \in {"resolved", "rejected"}

\* _init: this._client = mqtt.connect(this._broker, options), the gen-th client built.
NewClient(gen) == [gen |-> gen, phase |-> "open", settled |-> FALSE]

\* The sink of the decoding model has not been called.
NotDecoded == <<Undefined>>

Init ==
  /\ connected = FALSE
  /\ invokeId = 0
  /\ listeners = EmptyMap
  /\ timers = {}
  /\ calls = EmptyMap
  /\ proxies = EmptyMap
  /\ domains = EmptyMap
  /\ invoked = EmptyMap
  /\ emitted = << >>
  /\ inbox = << >>
  /\ heard = 0
  /\ dropped = {}
  /\ agentConn = "constructed"
  /\ will = Undefined
  /\ retained = EmptyMap
  /\ agentSubs = {}
  /\ sortIn = EmptyMap
  /\ sortOut = NotDecoded
  /\ conn = NewClient(0)
  /\ waits = << >>
  /\ thrown = {}
  /\ adapter = [instances |-> {}, calls |-> 0]
  /\ agentOut = << >>
  /\ agentIn = << >>

(***************************************************************************)
(* The Remote's operations.  limit bounds the counter in the run.          *)
(***************************************************************************)
\* The client's 'connect' event: the handler of _init subscribes (the broker then sends
\* the retained messages that match), and every connected() waiting starts its timer.
\* The orders in which the broker may hand over the retained messages of topics.
Orders(topics) ==
  {o \in [1..Cardinality(topics) -> topics] : \A i, j \in DOMAIN o : i # j => o[i] # o[j]}

\* The 'connect' event of the client of generation gen: the listeners registered on
\* that client with once('connect', ...) run.
ConnectWaits(ws, gen) ==
  [i \in DOMAIN ws |->
     IF ws[i].on # gen THEN ws[i]
     ELSE IF ws[i].op = "reconnect" /\ ws[i].stage = "pending" THEN [ws[i] EXCEPT !.stage = "resolved"]
     ELSE IF ws[i].op = "query" /\ ws[i].stage = "connecting" THEN [ws[i] EXCEPT !.stage = "settle"]
     ELSE ws[i]]

Connect ==
  /\ ~connected
  /\ conn.phase = "open"
  /\ connected' = TRUE
  /\ waits' = ConnectWaits(waits, conn.gen)
  /\ UNCHANGED <<conn, thrown>>
  /\ calls' = [c \in DOMAIN calls |->
                 IF calls[c].stage = "connecting" THEN [calls[c] EXCEPT !.stage = "settle"]
                 ELSE calls[c]]
  /\ \E held \in Orders({u \in DOMAIN retained : RemoteReceives(u)}) :
       inbox' = inbox \o [i \in 1..Len(held) |-> InfoMessage(held[i], retained[held[i]])]
  /\ UNCHANGED <<invokeId, listeners, timers, proxies, domains, invoked, emitted, heard, dropped>>
  /\ UNCHANGED <<agentVars, sortVars, adapterVars>>

\* connected(): setTimeout(resolve, 200) fires.
SettleFire(c) ==
  /\ c \in DOMAIN calls
  /\ calls[c].stage = "settle"
  /\ calls' = [calls EXCEPT ![c].stage = "ready"]
  /\ UNCHANGED <<connected, invokeId, listeners, timers, proxies, domains, invoked, emitted>>
  /\ UNCHANGED <<netVars, agentVars, sortVars, connVars, adapterVars>>

\* The request of a static operation is built for (domain, agent): the id draws the counter.
IssueFor(via, domain, agent, limit) ==
  /\ invokeId < limit
  /\ calls' = Put(calls, invokeId, NewCall(via, domain, agent, ClassName, {}, -1))
  /\ invokeId' = invokeId + 1
  /\ UNCHANGED <<connected, listeners, timers, proxies, domains, invoked, emitted>>
  /\ UNCHANGED <<netVars, agentVars, sortVars, connVars, adapterVars>>

IssueStatic(via, limit) == IssueFor(via, Domain, AgentName, limit)

\* throw new Error(message) before the request is built: the operation's promise is
\* rejected, nothing else happens.
Throw(op, domain, agent, message) ==
  /\ thrown' = thrown \cup {[op |-> op, domain |-> domain, agent |-> agent, message |-> message]}
  /\ UNCHANGED <<conn, waits>>
  /\ UNCHANGED <<remoteVars, netVars, agentVars, sortVars, adapterVars>>

AgentMissingMsg == "Agent must be specified"
DomainMissingMsg == "Domain must be specified"
CallStaticDomainMsg == "You must specify a domain"

\* create() with the effective domain and agent.
CreateFor(domain, agent, limit) ==
  IF agent = "*" THEN Throw("create", domain, agent, AgentMissingMsg)
  ELSE IF domain = "*" THEN Throw("create", domain, agent, DomainMissingMsg)
  ELSE IssueFor("_getProxy", domain, agent, limit)

\* getInstance() with the effective domain and agent.
GetInstanceFor(domain, agent, limit) == IssueFor("_getProxy", domain, agent, limit)

\* delete() with the effective domain and agent.
DeleteFor(domain, agent, limit) == IssueFor("_handleAgentAnswer", domain, agent, limit)

\* create(): up to await this.connected().
Create(limit) == CreateFor(Domain, AgentName, limit)

\* getInstance(): up to await this.connected().
GetInstance(limit) == GetInstanceFor(Domain, AgentName, limit)

\* delete(): up to await this.connected().
Delete(limit) == DeleteFor(Domain, AgentName, limit)

\* delete() given the proxy p as its instance (targetId = instance._targetId): up to
\* await this.connected().  It builds the request and touches nothing else.
DeleteProxy(p, limit) ==
  /\ invokeId < limit
  /\ calls' = Put(calls, invokeId,
                  [NewCall("_handleAgentAnswer", proxies[p].domain, proxies[p].agent,
                           proxies[p].klass, {}, -1) EXCEPT !.target = p])
  /\ invokeId' = invokeId + 1
  /\ UNCHANGED <<connected, listeners, timers, proxies, domains, invoked, emitted>>
  /\ UNCHANGED <<netVars, agentVars, sortVars, connVars, adapterVars>>

\* callStatic() with the effective domain and agent: up to await this.connected();
\* _packData runs with the class name.
CallStaticFor(domain, agent, functionName, args, limit) ==
  LET pk == PackData(listeners, invokeId + 1, ClassName, functionName, args)
  IN IF domain = "*" THEN Throw("callStatic", domain, agent, CallStaticDomainMsg)
     ELSE /\ invokeId < limit
          /\ pk.invokeId <= limit
          /\ calls' = Put(calls, invokeId,
                          NewCall("_handleAgentAnswer", domain, agent, ClassName, pk.tunnels, -1))
          /\ invokeId' = pk.invokeId
          /\ listeners' = pk.listeners
          /\ UNCHANGED <<connected, timers, proxies, domains, invoked, emitted>>
          /\ UNCHANGED <<netVars, agentVars, sortVars, connVars, adapterVars>>

CallStatic(functionName, args, limit) == CallStaticFor(Domain, AgentName, functionName, args, limit)

\* A proxy method: up to await this._mqttPublish().
ProxyCall(p, name, args, limit) ==
  LET pk == PackData(listeners, invokeId + 1, proxies[p].proxyId, Str(name), args)
  IN /\ invokeId < limit
     /\ pk.invokeId <= limit
     /\ calls' = Put(calls, invokeId,
                     NewCall("_handleAgentAnswer", proxies[p].domain, proxies[p].agent,
                             proxies[p].klass, pk.tunnels, p))
     /\ invokeId' = pk.invokeId
     /\ listeners' = pk.listeners
     /\ UNCHANGED <<connected, timers, proxies, domains, invoked, emitted>>
     /\ UNCHANGED <<netVars, agentVars, sortVars, connVars, adapterVars>>

\* The catch of a proxy method.  It sees what is thrown or awaited inside the try: an
\* error of _packData or of the awaited publish.  The promise of _handleAgentAnswer is
\* returned without await, so the method's promise follows it and its rejection passes
\* the catch by.
RepeatedMsg == "Repeated event registration"
WrapPrefix == "VRPC encountered error while trying a remote function call: "

ProxyCatch(message) ==
  IF message # RepeatedMsg THEN [stage |-> "rejected", outcome |-> WrapPrefix \o message]
  ELSE [stage |-> "resolved", outcome |-> Undefined]

\* The publish of a request completes: _getProxy or _handleAgentAnswer arms the timer
\* and registers the once-listener of the correlation id.
AnswerKind(via) == IF via = "_getProxy" THEN "proxy" ELSE "answer"

Register(st, c) ==
  [st EXCEPT !.timers = @ \cup {c},
             !.listeners = AddListener(@, CorrId(c), Listener(AnswerKind(st.calls[c].via), TRUE, c, "", "")),
             !.calls = [@ EXCEPT ![c].stage = "waiting"]]

\* The timer of _getProxy or _handleAgentAnswer fires.
TimeoutMsg(via) == IF via = "_getProxy" THEN ProxyTimeoutMsg ELSE CallTimeoutMsg

\* A timer callback that rejects and leaves the listener registered.
OnTimeoutKeepsListener(st, c) ==
  [st EXCEPT !.timers = @ \ {c},
             !.calls = Settle([@ EXCEPT ![c].fires = @ + 1], c, "rejected", TimeoutMsg(st.calls[c].via))]

OnTimeout(st, c) ==
  [st EXCEPT !.timers = @ \ {c},
             !.listeners = RemoveAllListeners(@, CorrId(c)),
             !.calls = Settle([@ EXCEPT ![c].fires = @ + 1], c, "rejected", TimeoutMsg(st.calls[c].via))]

SetRemote(st) ==
  /\ listeners' = st.listeners
  /\ timers' = st.timers
  /\ calls' = st.calls
  /\ proxies' = st.proxies
  /\ domains' = st.domains
  /\ invoked' = st.invoked
  /\ emitted' = st.emitted
  /\ invokeId' = st.invokeId

Publish(c) ==
  /\ c \in DOMAIN calls
  /\ calls[c].stage = "ready"
  /\ connected
  /\ SetRemote(Register(RemoteState, c))
  /\ UNCHANGED connected
  /\ UNCHANGED <<netVars, agentVars, sortVars, connVars, adapterVars>>

Timeout(c) ==
  /\ c \in timers
  /\ SetRemote(OnTimeout(RemoteState, c))
  /\ UNCHANGED connected
  /\ UNCHANGED <<netVars, agentVars, sortVars, connVars, adapterVars>>

(***************************************************************************)
(* The Agent side as the Remote sees it: replies, callback invocations,    *)
(* promise completions and class information arrive in any order, repeated *)
(* or not at all.  A message the Agent may have sent by now arrives and    *)
(* the 'message' handler runs on it; what may have been sent only grows,   *)
(* so every arrival order of messages in flight is one of these orders.    *)
(***************************************************************************)
Receive(m, key) ==
  /\ heard < MaxMsgs
  /\ connected
  /\ heard' = heard + 1
  /\ dropped' = IF key # "info" /\ key \notin DOMAIN listeners THEN dropped \cup {key} ELSE dropped
  /\ \E proxyId \in ProxyIds : SetRemote(OnMessage(RemoteState, m.topic, m.payload, proxyId))
  /\ UNCHANGED <<connected, inbox>>
  /\ UNCHANGED <<agentVars, sortVars, connVars, adapterVars>>

AgentReply(c, data) == Published(c) /\ Receive(RpcMessage(CorrId(c), data), CorrId(c))

AgentPromise(token, data) ==
  /\ \E c \in DOMAIN calls : Published(c) /\ calls[c].via = "_handleAgentAnswer"
  /\ Receive(RpcMessage(token, data), token)

KnownTunnels == UNION {calls[c].tunnels : c \in {x \in DOMAIN calls : Published(x)}}

AgentCallback(id, data) == id \in KnownTunnels /\ Receive(RpcMessage(id, data), id)

AgentClassInfo(json) ==
  Receive(InfoMessage(InfoTopic(Domain, AgentName, ClassName), json), "info")

StepBut(limit) ==
  \/ Connect
  \/ \E c \in DOMAIN calls : SettleFire(c)
  \/ Create(limit)
  \/ GetInstance(limit)
  \/ Delete(limit)
  \/ \E p \in DOMAIN proxies : DeleteProxy(p, limit)
  \/ \E args \in ArgLists : CallStatic("inc", args, limit)
  \/ \E p \in DOMAIN proxies : \E name \in proxies[p].methods : \E args \in ArgLists :
       ProxyCall(p, name, args, limit)
  \/ \E c \in timers : Timeout(c)
  \/ \E c \in DOMAIN calls : \E data \in ReplyData : AgentReply(c, data)
  \/ \E token \in PromiseTokens : \E data \in PromiseData : AgentPromise(token, data)
  \/ \E id \in KnownTunnels : \E data \in TunnelData : AgentCallback(id, data)
  \/ \E json \in ClassInfos : AgentClassInfo(json)

Step(limit) ==
  \/ StepBut(limit)
  \/ \E c \in DOMAIN calls : Publish(c)

Next == Step(MaxInvoke)

Spec == Init /\ [][Next]_vars

NextDeep == Step(MaxInvokeDeep)

SpecDeep == Init /\ [][NextDeep]_vars

(***************************************************************************)
(* The publish in two steps.  this._mqttPublish(topic, ...) writes the     *)
(* request to the connection and its callback resolves the awaited promise *)
(* in the same run; the code behind the await, which arms the timer and    *)
(* registers the listener, is a microtask of that run.  Handlers of        *)
(* messages and timers and new calls of the user are tasks of their own    *)
(* and start when no microtask is left.                                    *)
(***************************************************************************)
\* await this._mqttPublish(topic, JSON.stringify(json)): the request is on the wire.
Send(c) ==
  /\ c \in DOMAIN calls
  /\ calls[c].stage = "ready"
  /\ connected
  /\ calls' = [calls EXCEPT ![c].stage = "sent"]
  /\ UNCHANGED <<connected, invokeId, listeners, timers, proxies, domains, invoked, emitted>>
  /\ UNCHANGED <<netVars, agentVars, sortVars, connVars, adapterVars>>

\* The code behind the await: _getProxy's new Promise or _handleAgentAnswer(json.id).
Resume(c) ==
  /\ c \in DOMAIN calls
  /\ calls[c].stage = "sent"
  /\ SetRemote(Register(RemoteState, c))
  /\ UNCHANGED connected
  /\ UNCHANGED <<netVars, agentVars, sortVars, connVars, adapterVars>>

\* A loop that starts a task while a microtask is left.
TaskMayStartAnyTime == TRUE

TaskMayStart == \A c \in DOMAIN calls : calls[c].stage # "sent"

NextLoop ==
  \/ TaskMayStart /\ StepBut(MaxInvoke)
  \/ TaskMayStart /\ \E c \in DOMAIN calls : Send(c)
  \/ \E c \in DOMAIN calls : Resume(c)

SpecLoop == Init /\ [][NextLoop]_vars

(***************************************************************************)
(* The static operations called with every effective domain and agent, the *)
(* defaults of a Remote constructed without them ("*") included.            *)
(***************************************************************************)
EffectiveDomains == {"*", Domain}

EffectiveAgents == {"*", AgentName}

NextUsage ==
  \/ Connect
  \/ \E c \in DOMAIN calls : SettleFire(c)
  \/ \E domain \in EffectiveDomains : \E agent \in EffectiveAgents :
       \/ CreateFor(domain, agent, MaxInvoke)
       \/ GetInstanceFor(domain, agent, MaxInvoke)
       \/ DeleteFor(domain, agent, MaxInvoke)
       \/ CallStaticFor(domain, agent, "inc", << >>, MaxInvoke)
  \/ \E c \in DOMAIN calls : Publish(c)
  \/ \E c \in timers : Timeout(c)

SpecUsage == Init /\ [][NextUsage]_vars

(***************************************************************************)
(* The connection of the Remote: connected() as the query operations await *)
(* it, reconnectWithToken and end, with calls in flight.                   *)
(***************************************************************************)
\* 200 ms have passed since the 'connect' event of the current client.
SettleElapse ==
  /\ connected
  /\ ~conn.settled
  /\ conn' = [conn EXCEPT !.settled = TRUE]
  /\ UNCHANGED <<waits, thrown>>
  /\ UNCHANGED <<remoteVars, netVars, agentVars, sortVars, adapterVars>>

\* A query operation (getAvailabilities and the others): await this.connected(), then
\* the read of this._domains.  connected() resolves at once if this._client.connected.
Query ==
  /\ Len(waits) < MaxWaits
  /\ conn.phase = "open"
  /\ waits' = Append(waits,
                     IF connected
                     THEN [op |-> "query", stage |-> "returned", on |-> conn.gen, settled |-> conn.settled]
                     ELSE [op |-> "query", stage |-> "connecting", on |-> conn.gen, settled |-> FALSE])
  /\ UNCHANGED <<conn, thrown>>
  /\ UNCHANGED <<remoteVars, netVars, agentVars, sortVars, adapterVars>>

\* connected(): setTimeout(resolve, 200) of a query fires, 200 ms after the connect.
QuerySettleFire(i) ==
  /\ i \in DOMAIN waits
  /\ waits[i].op = "query" /\ waits[i].stage = "settle"
  /\ waits[i].on = conn.gen => conn.settled
  /\ waits' = [waits EXCEPT ![i].stage = "returned",
                            ![i].settled = (waits[i].on = conn.gen /\ conn.settled)]
  /\ UNCHANGED <<conn, thrown>>
  /\ UNCHANGED <<remoteVars, netVars, agentVars, sortVars, adapterVars>>

\* reconnectWithToken: this._client.end(() => this._init()) is started and the returned
\* promise registers once('connect', resolve) on this._client, the client being ended.
ReconnectWithToken ==
  /\ conn.phase = "open"
  /\ conn.gen < MaxReconnect
  /\ Len(waits) < MaxWaits
  /\ conn' = [conn EXCEPT !.phase = "ending"]
  /\ connected' = FALSE
  /\ waits' = Append(waits, [op |-> "reconnect", stage |-> "pending", on |-> conn.gen])
  /\ UNCHANGED <<invokeId, listeners, timers, calls, proxies, domains, invoked, emitted, thrown>>
  /\ UNCHANGED <<netVars, agentVars, sortVars, adapterVars>>

\* The callback of this._client.end runs: _init builds the next client.
EndCallback ==
  /\ conn.phase = "ending"
  /\ conn' = NewClient(conn.gen + 1)
  /\ UNCHANGED <<waits, thrown>>
  /\ UNCHANGED <<remoteVars, netVars, agentVars, sortVars, adapterVars>>

\* end(): the publish of {status: 'offline'} on {client id}/__info__ completes.
OfflineTopic == VrpcClientId \o <<Info>>

EndPublish ==
  /\ conn.phase = "open"
  /\ connected
  /\ Len(waits) < MaxWaits
  /\ \A i \in DOMAIN waits : waits[i].op # "end"
  /\ waits' = Append(waits, [op |-> "end", stage |-> "published", on |-> conn.gen,
                             sent |-> InfoMessage(OfflineTopic, [status |-> "offline"]),
                             inFlight |-> {}])
  /\ UNCHANGED <<conn, thrown>>
  /\ UNCHANGED <<remoteVars, netVars, agentVars, sortVars, adapterVars>>

\* end(): this._client.end(resolve) closes the transport.  The calls in flight keep
\* their timers and listeners.
EndClose(i) ==
  /\ i \in DOMAIN waits
  /\ waits[i].op = "end" /\ waits[i].stage = "published"
  /\ conn.phase = "open"
  /\ conn' = [conn EXCEPT !.phase = "closed"]
  /\ connected' = FALSE
  /\ waits' = [waits EXCEPT ![i].stage = "closed",
                            ![i].inFlight = {c \in DOMAIN calls : Pending(c)}]
  /\ UNCHANGED <<invokeId, listeners, timers, calls, proxies, domains, invoked, emitted, thrown>>
  /\ UNCHANGED <<netVars, agentVars, sortVars, adapterVars>>

NextConn ==
  \/ Connect
  \/ SettleElapse
  \/ Query
  \/ \E i \in DOMAIN waits : QuerySettleFire(i)
  \/ ReconnectWithToken
  \/ EndCallback
  \/ EndPublish
  \/ \E i \in DOMAIN waits : EndClose(i)
  \/ connected /\ CallStatic("inc", << >>, MaxInvoke)
  \/ \E c \in DOMAIN calls : Publish(c)
  \/ \E c \in timers : Timeout(c)
  \/ \E c \in DOMAIN calls : \E data \in ReplyData : AgentReply(c, data)

SpecConn == Init /\ [][NextConn]_vars

(***************************************************************************)
(* Discovery: the Agent's connection (serve, _handleConnect), the broker's *)
(* retained messages and last-will, and the Remote's handling of the       *)
(* messages the broker forwards to it, in the order it forwards them.      *)
(***************************************************************************)
\* this._baseTopic
BaseTopic == <<Domain, AgentName>>

\* The options serve() hands to mqtt.connect.
ServeOptions == [keepalive |-> 120, clean |-> TRUE, connectTimeout |-> 10 * 1000]

\* The last-will the broker registers for a session opened with options.
WillOf(options) == IF "will" \in DOMAIN options THEN options.will ELSE Undefined

\* VrpcAdapter.getClassesArray() and the function arrays of a class.
AgentClasses == {"Foo", "Bar"}

InstanceLists == {<< >>, <<"i1">>}

\* The json _handleConnect publishes for a class.
AdapterInfo(klass, instances) ==
  [class |-> klass, instances |-> instances, memberFunctions |-> <<on, inc, incNumber>>,
   staticFunctions |-> <<inc>>]

GenerateTopics == {BaseTopic \o <<klass, Static, Str(inc)>> : klass \in AgentClasses}

\* A publish with retain: true: the broker keeps the payload for the topic (a payload
\* of length 0 clears it) and forwards it to the Remote if its subscription matches.
Retain(ret, topic, payload) ==
  IF payload = Empty THEN Remove(ret, topic) ELSE Put(ret, topic, payload)

Forward(box, topic, payload) ==
  IF connected /\ RemoteReceives(topic) THEN Append(box, InfoMessage(topic, payload)) ELSE box

RECURSIVE PublishClasses(_, _, _)
PublishClasses(net, klasses, instances) ==
  IF klasses = {} THEN net
  ELSE LET klass == CHOOSE k \in klasses : TRUE
           topic == InfoTopic(Domain, AgentName, klass)
           json == AdapterInfo(klass, instances[klass])
       IN PublishClasses([retained |-> Retain(net.retained, topic, json),
                          inbox |-> Forward(net.inbox, topic, json)],
                         klasses \ {klass}, instances)

InFlight == heard + Len(inbox)

\* serve(): mqtt.connect(this._broker, options).
Serve ==
  /\ agentConn = "constructed"
  /\ agentConn' = "connecting"
  /\ will' = WillOf(ServeOptions)
  /\ UNCHANGED <<retained, agentSubs>>
  /\ UNCHANGED <<remoteVars, netVars, sortVars, connVars, adapterVars>>

\* _handleConnect: subscribe to the static topics, publish the class information.
HandleConnect(instances) ==
  /\ agentConn = "connecting"
  /\ InFlight + Cardinality(AgentClasses) <= MaxInfo
  /\ agentConn' = "online"
  /\ agentSubs' = agentSubs \cup GenerateTopics
  /\ LET net == PublishClasses([retained |-> retained, inbox |-> inbox], AgentClasses, instances)
     IN retained' = net.retained /\ inbox' = net.inbox
  /\ UNCHANGED <<will, heard, dropped>>
  /\ UNCHANGED <<remoteVars, sortVars, connVars, adapterVars>>

\* The Agent's connection breaks without a DISCONNECT: the broker publishes the
\* session's last-will, if it holds one, and drops the session (clean: true).  The
\* mqtt client keeps the topics it subscribed and subscribes them again when it is
\* connected again (its resubscribe default), so agentSubs is what the broker serves
\* whenever the Agent is online.
AgentLost ==
  /\ agentConn = "online"
  /\ agentConn' = "lost"
  /\ agentSubs' = agentSubs
  /\ retained' = IF will = Undefined THEN retained ELSE Retain(retained, will.topic, will.payload)
  /\ inbox' = IF will = Undefined THEN inbox ELSE Forward(inbox, will.topic, will.payload)
  /\ UNCHANGED <<will, heard, dropped>>
  /\ UNCHANGED <<remoteVars, sortVars, connVars, adapterVars>>

\* The mqtt client of the Agent connects again with the options of serve().
AgentReconnect ==
  /\ agentConn = "lost"
  /\ agentConn' = "connecting"
  /\ will' = WillOf(ServeOptions)
  /\ UNCHANGED <<retained, agentSubs>>
  /\ UNCHANGED <<remoteVars, netVars, sortVars, connVars, adapterVars>>

\* Another Agent of the domain publishes (or clears) the class information of a class.
PeerAgent == "a2"

PeerInfos ==
  {[className |-> ClassName, instances |-> << >>, memberFunctions |-> <<inc>>,
    staticFunctions |-> << >>],
   Empty}

PeerClassInfo(json) ==
  /\ InFlight < MaxInfo
  /\ retained' = Retain(retained, InfoTopic(Domain, PeerAgent, ClassName), json)
  /\ inbox' = Forward(inbox, InfoTopic(Domain, PeerAgent, ClassName), json)
  /\ UNCHANGED <<agentConn, will, agentSubs, heard, dropped>>
  /\ UNCHANGED <<remoteVars, sortVars, connVars, adapterVars>>

\* The presence messages the Remote's handler reads: {status, hostname}.
PresenceInfos ==
  {[status |-> "online", hostname |-> Hostname], [status |-> "offline", hostname |-> Hostname]}

\* Another Agent of the domain publishes its presence, retained.
PeerPresence(json) ==
  /\ InFlight < MaxInfo
  /\ retained' = Retain(retained, AgentInfoTopic(Domain, PeerAgent), json)
  /\ inbox' = Forward(inbox, AgentInfoTopic(Domain, PeerAgent), json)
  /\ UNCHANGED <<agentConn, will, agentSubs, heard, dropped>>
  /\ UNCHANGED <<remoteVars, sortVars, connVars, adapterVars>>

\* getAvailableAgents(domain), once connected() has resolved.
GetAvailableAgents(tree, domain) ==
  IF domain \in DOMAIN tree THEN DOMAIN tree[domain].agents ELSE {}

\* The Remote's 'message' handler runs on the next message the broker forwarded.
Deliver ==
  /\ inbox # << >>
  /\ inbox' = Tail(inbox)
  /\ heard' = heard + 1
  /\ \E proxyId \in ProxyIds :
       SetRemote(OnMessage(RemoteState, Head(inbox).topic, Head(inbox).payload, proxyId))
  /\ UNCHANGED <<connected, dropped>>
  /\ UNCHANGED <<agentVars, sortVars, connVars, adapterVars>>

NextDisc ==
  \/ Connect
  \/ Serve
  \/ \E instances \in [AgentClasses -> InstanceLists] : HandleConnect(instances)
  \/ AgentLost
  \/ AgentReconnect
  \/ \E json \in PeerInfos : PeerClassInfo(json)
  \/ \E json \in PresenceInfos : PeerPresence(json)
  \/ Deliver

SpecDisc == Init /\ [][NextDisc]_vars

(***************************************************************************)
(* The Agent's 'message' handler (_handleMessage) with the Adapter behind   *)
(* it.  ag = [adapter, subs, out].                                          *)
(***************************************************************************)
AgentState == [adapter |-> adapter, subs |-> agentSubs, out |-> agentOut]

InstanceIds == {"i1", "i2"}

\* A payload as it arrives: text that JSON.parse accepts, with its value, or not.
GoodRequest ==
  [wellFormed |-> TRUE,
   value |-> [id |-> CorrId(0), sender |-> VrpcClientId, data |-> EmptyMap]]

BadRequest == [wellFormed |-> FALSE]

CreateTopic(klass) == BaseTopic \o <<klass, Static, "__create__">>

MethodTopic(klass, instance, method) == BaseTopic \o <<klass, instance, method>>

\* VrpcAdapter.getMemberFunctionsArray(klass): names, with the argument signature
\* behind a "-" where the Adapter reports one.
MemberFunctionsOf(klass) == IF klass = "Bar" THEN <<incNumber>> ELSE <<on, inc, incNumber>>

MethodTopics(klass, instance) ==
  {MethodTopic(klass, instance, Str(f)) : f \in Range(MemberFunctionsOf(klass))}

\* VrpcAdapter.call(json): json.data gets r or e; a successful __create__ makes the
\* instance fresh live.
AdapterCall(ad, json, result, fresh) ==
  IF result = "error"
  THEN [adapter |-> [ad EXCEPT !.calls = @ + 1], data |-> Put(json.data, "e", "boom")]
  ELSE IF json.method \in {"__create__", "__createNamed__"}
  THEN [adapter |-> [ad EXCEPT !.calls = @ + 1, !.instances = @ \cup {<<json.targetId, fresh>>}],
        data |-> Put(json.data, "r", fresh)]
  ELSE [adapter |-> [ad EXCEPT !.calls = @ + 1], data |-> Put(json.data, "r", "ret")]

\* A handler that takes a topic of any length.
TopicAny(tokens) == TRUE

TopicOk(tokens) == Len(tokens) = 5

HandleMessage(ag, topic, data, result, fresh) ==
  IF ~data.wellFormed THEN ag
  ELSE IF ~TopicOk(topic) THEN ag
  ELSE LET klass == Token(topic, 3)
           instance == Token(topic, 4)
           method == Token(topic, 5)
           json == [id |-> data.value.id, sender |-> data.value.sender, data |-> data.value.data,
                    targetId |-> IF instance = Static THEN klass ELSE instance,
                    method |-> method]
           called == AdapterCall(ag.adapter, json, result, fresh)
           subs == IF method \in {"__create__", "__createNamed__"}
                   THEN ag.subs \cup MethodTopics(klass, Get(called.data, "r"))
                   ELSE ag.subs
       IN [adapter |-> called.adapter, subs |-> subs,
           out |-> Append(ag.out, [topic |-> json.sender,
                                   payload |-> [json EXCEPT !.data = called.data]])]

\* The topics the methods of a proxy publish to: `${targetTopic}/${name}` for the
\* stripped, deduplicated member functions of the class info the Agent published.
ProxyTopics(klass, instance) ==
  {MethodTopic(klass, instance, Str(StripSignature(f))) : f \in Range(MemberFunctionsOf(klass))}

AgentTopics ==
  {CreateTopic("Foo"), CreateTopic("Bar"), MethodTopic("Foo", "i1", "inc"),
   BaseTopic \o <<"Foo", "inc">>, BaseTopic \o <<"Foo", "i1", "inc", "x">>}

AgentPayloads == {GoodRequest, BadRequest}

Malformed(m) == ~m.data.wellFormed \/ Len(m.topic) # 5

\* The mqtt client hands a message of the connection to the handler.
AgentInbound(topic, data, result, fresh) ==
  /\ agentConn = "online"
  /\ Len(agentIn) < MaxAgentMsgs
  /\ fresh \notin {i[2] : i \in adapter.instances}
  /\ agentIn' = Append(agentIn, [topic |-> topic, data |-> data])
  /\ LET ag == HandleMessage(AgentState, topic, data, result, fresh)
     IN adapter' = ag.adapter /\ agentSubs' = ag.subs /\ agentOut' = ag.out
  /\ UNCHANGED <<agentConn, will, retained>>
  /\ UNCHANGED <<remoteVars, netVars, sortVars, connVars>>

\* User code of the Agent's process makes an instance through the Adapter; the Agent
\* is not involved.  _handleConnect publishes such instances with the class.
LocalCreate(klass, fresh) ==
  /\ Cardinality(adapter.instances) < Cardinality(InstanceIds)
  /\ fresh \notin {i[2] : i \in adapter.instances}
  /\ adapter' = [adapter EXCEPT !.instances = @ \cup {<<klass, fresh>>}]
  /\ UNCHANGED <<agentOut, agentIn>>
  /\ UNCHANGED <<remoteVars, netVars, agentVars, sortVars, connVars>>

\* VrpcAdapter.getInstancesArray(klass) for every class.
RECURSIVE SeqOf(_)
SeqOf(set) == IF set = {} THEN << >>
              ELSE LET x == CHOOSE x \in set : TRUE IN <<x>> \o SeqOf(set \ {x})

AdapterInstances ==
  [klass \in AgentClasses |-> SeqOf({i[2] : i \in {j \in adapter.instances : j[1] = klass}})]

NextAgent ==
  \/ Serve
  \/ HandleConnect(AdapterInstances)
  \/ AgentLost
  \/ AgentReconnect
  \/ \E fresh \in InstanceIds : LocalCreate("Foo", fresh)
  \/ \E topic \in AgentTopics : \E data \in AgentPayloads : \E result \in {"ok", "error"} :
       \E fresh \in InstanceIds : AgentInbound(topic, data, result, fresh)

SpecAgent == Init /\ [][NextAgent]_vars

(***************************************************************************)
(* Decoding of one callback message: the data object is drawn, the tunnel  *)
(* listener of _packData decodes it and calls the sink.                    *)
(***************************************************************************)
ArgValues == {"v", "w"}

\* The data object with the keys _1 .. _n, the value of _i naming i.
ArgObject(n, marks) == [k \in {ArgKey(i) : i \in 1..n} |->
                         LET i == CHOOSE i \in 1..n : ArgKey(i) = k IN marks[i] \o ToString(i)]

Extras == {EmptyMap, ("r" :> "ret"), ("e" :> "err"), ("r" :> "ret") @@ ("e" :> "err")}

DataObjects ==
  UNION {{ArgObject(n, marks) @@ extra : marks \in [1..n -> ArgValues], extra \in Extras} :
         n \in 0..MaxArgs}

InitSort ==
  /\ connected = FALSE
  /\ invokeId = 0
  /\ listeners = EmptyMap
  /\ timers = {}
  /\ calls = EmptyMap
  /\ proxies = EmptyMap
  /\ domains = EmptyMap
  /\ invoked = EmptyMap
  /\ emitted = << >>
  /\ inbox = << >>
  /\ heard = 0
  /\ dropped = {}
  /\ agentConn = "constructed"
  /\ will = Undefined
  /\ retained = EmptyMap
  /\ agentSubs = {}
  /\ sortIn \in DataObjects
  /\ sortOut = NotDecoded
  /\ conn = NewClient(0)
  /\ waits = << >>
  /\ thrown = {}
  /\ adapter = [instances |-> {}, calls |-> 0]
  /\ agentOut = << >>
  /\ agentIn = << >>

\* callback.apply(null, args) of the listener _packData registers.
Decode ==
  /\ sortOut = NotDecoded
  /\ sortOut' = DecodeArgs(sortIn)
  /\ UNCHANGED <<sortIn, remoteVars, netVars, agentVars, connVars, adapterVars>>

NextSort == Decode

SpecSort == InitSort /\ [][NextSort]_vars

\* Timers fire, and the Remote's own continuations run; the Agent side owes nothing.
CallIds == 0..(MaxInvoke - 1)

Fairness ==
  /\ WF_vars(Connect)
  /\ \A c \in CallIds : WF_vars(SettleFire(c)) /\ WF_vars(Publish(c)) /\ WF_vars(Timeout(c))

FairSpec == Spec /\ Fairness

(***************************************************************************)
(* Properties.                                                             *)
(***************************************************************************)
Deliveries(sink) == IF sink \in DOMAIN invoked THEN invoked[sink].count ELSE 0

AnyData == ReplyData \cup PromiseData \cup TunnelData

\* What the 'message' handler makes of the current state on an RPC message.
After(id, data) ==
  OnMessage(RemoteState, VrpcClientId, [id |-> id, data |-> data], CHOOSE p \in ProxyIds : TRUE)

AfterIn(st, id, data) ==
  OnMessage(st, VrpcClientId, [id |-> id, data |-> data], CHOOSE p \in ProxyIds : TRUE)

CorrelatorKinds == {"proxy", "answer", "promise"}

\* The calls with a listener registered under id.
Hearers(id) == {l.call : l \in {x \in Range(ListenersOf(listeners, id)) : x.kind \in CorrelatorKinds}}

IsPrefix(a, b) == Len(a) <= Len(b) /\ SubSeq(b, 1, Len(a)) = a

\* C1: every request whose publish completed is in the end completed exactly once, by
\* its reply or by its timeout, and the correlator then holds no entry for its id.
C1_EveryRequestCompletesOnce ==
  \A c \in CallIds :
    [](Published(c) => <>(Done(c) /\ calls[c].completed = 1 /\ CorrId(c) \notin DOMAIN listeners))

\* C2: once the timeout of a call has fired (it fires at most once), a reply with the
\* call's correlation id leaves the whole state of the Remote as it is.
C2_LateReplyDropped ==
  \A c \in DOMAIN calls :
    /\ calls[c].fires <= 1
    /\ calls[c].fires = 1 => \A data \in AnyData : After(CorrId(c), data) = RemoteState

C2_Witness ==
  \E c \in DOMAIN calls : calls[c].fires = 1 /\ CorrId(c) \in dropped /\ calls[c].completed = 1

\* C3: an RPC message is routed by its id alone: calls with no listener under the id,
\* their timers, the listeners of every other id and the discovery tree stay as they
\* are; the call waiting under the id leaves the table; an id with no entry changes
\* nothing.
RoutedById(id, data) ==
  LET st == After(id, data)
  IN /\ st.domains = domains
     /\ \A c \in DOMAIN calls \ Hearers(id) :
          st.calls[c] = calls[c] /\ (c \in st.timers <=> c \in timers)
     /\ \A other \in DOMAIN listeners \ {id} :
          other \in DOMAIN st.listeners /\ IsPrefix(listeners[other], st.listeners[other])
     /\ \A c \in Hearers(id) : calls[c].stage = "waiting" =>
          /\ st.calls[c].stage \in {"resolved", "rejected", "chained"}
          /\ c \notin st.timers
          /\ c \notin {l.call : l \in Range(ListenersOf(st.listeners, id))}
     /\ id \notin DOMAIN listeners => st = RemoteState

C3_RoutedByIdOnly ==
  \A id \in {CorrId(c) : c \in CallIds} \cup PromiseTokens \cup DOMAIN listeners :
    \A data \in AnyData : RoutedById(id, data)

C3_Witness ==
  \E c1, c2 \in DOMAIN calls :
    /\ c1 # c2
    /\ calls[c1].stage = "waiting" /\ calls[c2].stage = "waiting"
    /\ domains # EmptyMap
    /\ heard > 0

\* C4: a call that waits for its answer is in the end resolved or rejected, also when
\* it waits for the second message of a promise token.
C4_EveryWaitBounded == \A c \in CallIds : Pending(c) ~> Done(c)

\* C5: every entry of the pending-call table, an entry of a promise token included,
\* has an armed timer.
C5_EveryEntryHasTimer ==
  \A id \in DOMAIN listeners : \A l \in Range(listeners[id]) :
    l.kind \in CorrelatorKinds => l.call \in timers

\* C6: however often proxy.on(event, handler) was called, one message on the
\* registration's tunnel id invokes the handler exactly once.
C6_OnRegistrationIdempotent ==
  \A id \in DOMAIN listeners : \A l \in Range(listeners[id]) :
    (l.kind = "callback" /\ ~l.once) =>
      \A data \in TunnelData : After(id, data).invoked[l.sink].count = Deliveries(l.sink) + 1

\* C7: the first message on the tunnel id of a one-shot callback invokes the callback
\* once, with the decoded arguments, and removes the entry; a later message on the id
\* changes nothing.
OneShotIds ==
  {OnceTunnelId(p, f, i, n) : p \in ProxyIds \cup {ClassName}, f \in {"on", "inc"},
                               i \in 0..1, n \in 0..(MaxInvokeDeep + 1)}

C7_OneShotRemovedAfterFirstDelivery ==
  /\ \A id \in DOMAIN listeners \cap OneShotIds : \A l \in Range(listeners[id]) :
       l.kind = "callback" =>
         \A data \in TunnelData :
           LET first == After(id, data)
           IN /\ first.invoked[l.sink] = [count |-> Deliveries(l.sink) + 1, args |-> DecodeArgs(data)]
              /\ id \notin DOMAIN first.listeners
              /\ \A later \in TunnelData : AfterIn(first, id, later) = first
  /\ \A id \in dropped \cap OneShotIds : id \notin DOMAIN listeners

C7_Witness ==
  \E id \in dropped \cap KnownTunnels \cap OneShotIds :
    /\ id \notin DOMAIN listeners
    /\ Deliveries("h1") = 1
    /\ invoked["h1"].args = <<"42", "x">>

\* C8: the sink receives exactly the values of the keys beginning with "_", in the
\* order of the keys sorted by code units; up to 9 arguments that is the positional
\* order _1 .. _N; the values of r and e are never passed.
ArgKeysOf(data) == {k \in DOMAIN data : k \notin {"r", "e"}}

KeyOf(data, value) == CHOOSE k \in DOMAIN data : data[k] = value

C8_CallbackArgumentOrder ==
  sortOut # NotDecoded =>
    LET n == Cardinality(ArgKeysOf(sortIn))
    IN /\ Len(sortOut) = n
       /\ Range(sortOut) = {sortIn[k] : k \in ArgKeysOf(sortIn)}
       /\ \A i, j \in 1..Len(sortOut) : i < j =>
            CodeLess(CodeUnits(KeyOf(sortIn, sortOut[i])), CodeUnits(KeyOf(sortIn, sortOut[j])))
       /\ n <= 9 => sortOut = [i \in 1..n |-> sortIn[ArgKey(i)]]
       /\ n = 10 => sortOut[2] = sortIn[ArgKey(10)]

C8_Witness ==
  /\ sortOut # NotDecoded
  /\ Len(sortOut) = 9
  /\ {"r", "e"} \subseteq DOMAIN sortIn
  /\ sortOut[9] = "w9"

\* C9: when the Remote processes a class-info message, the tree entry of the message's
\* (domain, agent, class) becomes the message's payload and the entry of every other
\* triple stays as it was.
TreeDomains == {Domain}

TreeAgents == {AgentName, PeerAgent}

TreeClasses == AgentClasses

Triples == TreeDomains \X TreeAgents \X TreeClasses

EntryOf(tree, t) ==
  IF t[1] \in DOMAIN tree /\ t[2] \in DOMAIN tree[t[1]].agents
     /\ t[3] \in DOMAIN tree[t[1]].agents[t[2]].classes
  THEN tree[t[1]].agents[t[2]].classes[t[3]]
  ELSE Empty

IsClassInfo(m) ==
  /\ m.payload # Empty
  /\ Len(m.topic) = 5 /\ m.topic[5] = Info /\ m.topic[4] = Static /\ m.topic[3] # AgentClass

LatestClassInfoStored ==
  (inbox # << >> /\ heard' = heard + 1 /\ IsClassInfo(Head(inbox))) =>
    LET m == Head(inbox)
        triple == <<m.topic[1], m.topic[2], m.topic[3]>>
    IN /\ EntryOf(domains', triple) = m.payload
       /\ \A other \in Triples \ {triple} : EntryOf(domains', other) = EntryOf(domains, other)

C9_TreeHoldsLatestClassInfo == [][LatestClassInfoStored]_vars

C9_Witness ==
  /\ heard >= 3
  /\ inbox = << >>
  /\ Cardinality({t \in Triples : EntryOf(domains, t) # Empty}) = 2
  /\ EntryOf(domains, <<Domain, AgentName, "Foo">>) = AdapterInfo("Foo", <<"i1">>)
  /\ Len(emitted) = heard

\* C10: once the Agent's connection is lost, the broker's retained message on the
\* Agent's __agent__/__static__/__info__ topic is {status: "offline"}.
C10_OfflineRetainedAfterLoss ==
  agentConn = "lost" =>
    /\ AgentInfoTopic(Domain, AgentName) \in DOMAIN retained
    /\ Get(retained[AgentInfoTopic(Domain, AgentName)], "status") = "offline"

\* C11: a static operation whose effective domain or agent is "*" builds no request:
\* no call of it is ever published and nothing is registered for it.
Wildcarded(c) == calls[c].domain = "*" \/ calls[c].agent = "*"

C11_WildcardIsUsageError ==
  \A c \in DOMAIN calls :
    Wildcarded(c) => ~Published(c) /\ c \notin timers /\ CorrId(c) \notin DOMAIN listeners

\* C12: a reply with data.e rejects the waiting call; the error is data.e itself for
\* callStatic and delete, and data.e behind the remote-function-call prefix for a
\* proxy method.
ErrorReply == ("e" :> "boom")

C12_RemoteErrorSurfaced ==
  \A c \in DOMAIN calls :
    (calls[c].stage = "waiting" /\ calls[c].via = "_handleAgentAnswer") =>
      LET after == After(CorrId(c), ErrorReply).calls[c]
      IN /\ after.stage = "rejected"
         /\ after.outcome = IF calls[c].proxy # -1 THEN ProxyCatch(ErrorReply["e"]).outcome
                             ELSE ErrorReply["e"]

\* C13: a reply to a proxy method whose data.e is 'Repeated event registration'
\* resolves the call.
C13_RepeatedRegistrationSwallowed ==
  \A c \in DOMAIN calls :
    (calls[c].stage = "waiting" /\ calls[c].proxy # -1) =>
      After(CorrId(c), ("e" :> RepeatedMsg)).calls[c].stage = "resolved"

\* C14: the methods of a proxy are the member-function names of its class in the tree
\* at the moment of creation, each cut before its first "-", without duplicates; no
\* class-info message and no other step changes an existing proxy.
Stem(name) ==
  LET dashes == {i \in 1..Len(name) : name[i] = "-"}
  IN IF dashes = {} THEN name
     ELSE SubSeq(name, 1, (CHOOSE i \in dashes : \A j \in dashes : i <= j) - 1)

LaterInfos == ClassInfos \cup (PeerInfos \ {Empty})

MethodsCapturedAtCreation ==
  /\ \A c \in DOMAIN calls :
       (calls[c].stage = "waiting" /\ calls[c].via = "_getProxy"
        /\ HasClass(domains, calls[c].domain, calls[c].agent, calls[c].klass)) =>
         LET made == After(CorrId(c), ("r" :> "i1")).proxies
             known == domains[calls[c].domain].agents[calls[c].agent].classes[calls[c].klass]
         IN c \in DOMAIN made /\ made[c].methods = {Stem(f) : f \in Range(known.memberFunctions)}
  /\ \A p \in DOMAIN proxies : \A json \in LaterInfos :
       OnMessage(RemoteState, InfoTopic(proxies[p].domain, proxies[p].agent, proxies[p].klass),
                 json, CHOOSE id \in ProxyIds : TRUE).proxies = proxies

ProxiesKept == \A p \in DOMAIN proxies : p \in DOMAIN proxies' /\ proxies'[p] = proxies[p]

C14_ProxyMethodsFixedAtCreation == []MethodsCapturedAtCreation /\ [][ProxiesKept]_vars

C14_Witness ==
  \E p \in DOMAIN proxies :
    /\ proxies[p].methods = {on, inc}
    /\ Len(emitted) >= 2
    /\ \E c \in DOMAIN calls : calls[c].proxy = p

\* C15: the requests of the Remote carry pairwise different correlation ids
\* {instance}-{n}; every n is drawn from the one counter, which only grows, a one-shot
\* tunnel id takes its n from the same counter, and no correlation id is a tunnel id.
AllTunnels == UNION {calls[c].tunnels : c \in DOMAIN calls}

IdsDistinct ==
  /\ \A c1, c2 \in DOMAIN calls : c1 # c2 => CorrId(c1) # CorrId(c2)
  /\ \A c \in DOMAIN calls : c < invokeId /\ CorrId(c) \notin AllTunnels
  /\ \A c1, c2 \in DOMAIN calls :
       c1 # c2 => calls[c1].tunnels \cap calls[c2].tunnels \cap OneShotIds = {}
  /\ \A n \in DOMAIN calls : \A p \in ProxyIds \cup {ClassName} : \A f \in {"on", "inc"} :
       \A i \in 0..1 : OnceTunnelId(p, f, i, n) \notin AllTunnels
  /\ \A id \in DOMAIN listeners : \A l \in Range(listeners[id]) :
       l.kind \in {"proxy", "answer"} => id = CorrId(l.call)

CounterGrows ==
  /\ invokeId' >= invokeId
  /\ DOMAIN calls \subseteq DOMAIN calls'
  /\ (DOMAIN calls' \ DOMAIN calls) \subseteq invokeId..(invokeId' - 1)
  /\ \A c \in DOMAIN calls : calls'[c].tunnels = calls[c].tunnels /\ calls'[c].via = calls[c].via
  /\ (AllTunnels' \ AllTunnels) \cap OneShotIds # {} => invokeId' >= invokeId + 2

C15_CorrelationIdsUnique == []IdsDistinct /\ [][CounterGrows]_vars

C15_Witness ==
  \E c1, c2 \in DOMAIN calls :
    /\ c1 # c2
    /\ Pending(c1) /\ Pending(c2)
    /\ CorrId(c1) \in DOMAIN listeners /\ CorrId(c2) \in DOMAIN listeners
    /\ invokeId = c1 + c2 + 1

\* C16: once the client built by reconnectWithToken is connected, the promise
\* reconnectWithToken returned is resolved.
C16_ReconnectResolvesOnConnect ==
  \A i \in DOMAIN waits :
    (waits[i].op = "reconnect" /\ conn.gen > waits[i].on /\ connected) =>
      waits[i].stage = "resolved"

\* C17: end() has published {status: "offline"} before it closes the transport, and no
\* call that was in flight when the transport closed fails by its timeout.
C17_EndFailsCallsInFlight ==
  \A i \in DOMAIN waits :
    (waits[i].op = "end" /\ waits[i].stage = "closed") =>
      /\ waits[i].sent = InfoMessage(OfflineTopic, [status |-> "offline"])
      /\ \A c \in waits[i].inFlight : calls[c].fires = 0

\* C18: a query operation returns only when the client is connected and 200 ms have
\* passed since its connect.
C18_QueriesReturnAfterSettle ==
  \A i \in DOMAIN waits :
    (waits[i].op = "query" /\ waits[i].stage = "returned") => waits[i].settled

\* C19: whenever the Agent is online, it has subscribed the method topic of every
\* member function of every live instance of the Adapter.
C19_InstanceMethodsSubscribed ==
  agentConn = "online" =>
    \A i \in adapter.instances : MethodTopics(i[1], i[2]) \subseteq agentSubs

\* C20: on a message whose payload is not JSON or whose topic has not five segments
\* the handler calls no Adapter, subscribes nothing, publishes nothing and raises
\* nothing: the Agent's state stays as it is.
ViolationsDropped ==
  \A topic \in AgentTopics : \A data \in AgentPayloads :
    Malformed([topic |-> topic, data |-> data]) =>
      \A result \in {"ok", "error"} : \A fresh \in InstanceIds :
        HandleMessage(AgentState, topic, data, result, fresh) = AgentState

ViolationStepDrops ==
  (Len(agentIn') = Len(agentIn) + 1 /\ Malformed(agentIn'[Len(agentIn')])) =>
    adapter' = adapter /\ agentSubs' = agentSubs /\ agentOut' = agentOut

C20_ProtocolViolationDropped == []ViolationsDropped /\ [][ViolationStepDrops]_vars

C20_Witness ==
  /\ Len(agentIn) = 3
  /\ ~agentIn[1].data.wellFormed
  /\ Len(agentIn[2].topic) # 5 /\ agentIn[2].data.wellFormed
  /\ ~Malformed(agentIn[3])
  /\ adapter.calls = 1
  /\ Len(agentOut) = 1

\* C21: the Agent subscribes an instance's member-method topics on a creation that
\* succeeded and on no other: a step in which the handler answers a creation with
\* data.e subscribes nothing.
CreationFailed(reply) ==
  /\ reply.payload.method \in {"__create__", "__createNamed__"}
  /\ "e" \in DOMAIN reply.payload.data

C21_SubscribesOnSuccessOnly ==
  [][(Len(agentOut') = Len(agentOut) + 1 /\ CreationFailed(agentOut'[Len(agentOut')]))
       => agentSubs' = agentSubs]_vars

\* C22: a reply whose data.r is a promise token does not complete the call: it puts a
\* one-shot entry for the call under the token; the next message with the token as id
\* completes the call with its data.r, or rejects it with its data.e, and removes the
\* entry; one more message with the token changes nothing.
TokenChain(id, c, token) ==
  LET st == After(id, "r" :> token)
  IN /\ st.calls[c].stage = "chained"
     /\ st.calls[c].completed = calls[c].completed
     /\ st.calls[c].outcome = Undefined
     /\ \E p \in Range(ListenersOf(st.listeners, token)) :
          p.kind = "promise" /\ p.once /\ p.call = c
     /\ \A pd \in PromiseData :
          LET st2 == AfterIn(st, token, pd)
          IN /\ st2.calls[c].stage = IF "e" \in DOMAIN pd THEN "rejected" ELSE "resolved"
             /\ st2.calls[c].outcome = IF "e" \in DOMAIN pd THEN pd["e"] ELSE pd["r"]
             /\ st2.calls[c].completed = calls[c].completed + 1
             /\ ListenersOf(st2.listeners, token) = << >>
             /\ \A more \in PromiseData : AfterIn(st2, token, more) = st2

C22_PromiseTokenChained ==
  \A id \in DOMAIN listeners : \A l \in Range(listeners[id]) :
    (l.kind = "answer" /\ calls[l.call].stage = "waiting") =>
      \A token \in PromiseTokens : TokenChain(id, l.call, token)

C22_Witness ==
  \E c \in DOMAIN calls :
    /\ calls[c].via = "_handleAgentAnswer"
    /\ calls[c].stage = "resolved" /\ calls[c].outcome = "done"
    /\ calls[c].completed = 1
    /\ \E token \in PromiseTokens : token \in dropped /\ token \notin DOMAIN listeners

\* C23: a presence message of (domain, agent) sets the agent's status and hostname
\* from the payload and emits one 'agent' event; the agent's classes, every other
\* agent's entry and the rest of the Remote stay as they are, so an agent that went
\* offline is still among getAvailableAgents(domain), with status "offline".
AgentsOf(tree, domain) == IF domain \in DOMAIN tree THEN tree[domain].agents ELSE EmptyMap

PresenceApplied(domain, agent, json) ==
  LET st == OnMessage(RemoteState, AgentInfoTopic(domain, agent), json, CHOOSE p \in ProxyIds : TRUE)
      old == AgentsOf(domains, domain)
      new == AgentsOf(st.domains, domain)
  IN /\ agent \in GetAvailableAgents(st.domains, domain)
     /\ new[agent].status = json.status
     /\ new[agent].hostname = json.hostname
     /\ new[agent].classes = IF agent \in DOMAIN old THEN old[agent].classes ELSE EmptyMap
     /\ DOMAIN new = DOMAIN old \cup {agent}
     /\ \A other \in DOMAIN old \ {agent} : new[other] = old[other]
     /\ DOMAIN st.domains = DOMAIN domains \cup {domain}
     /\ \A d \in DOMAIN domains \ {domain} : st.domains[d] = domains[d]
     /\ st.emitted = Append(emitted, [event |-> "agent", domain |-> domain, agent |-> agent,
                                      status |-> json.status, hostname |-> json.hostname])
     /\ [st EXCEPT !.domains = domains, !.emitted = emitted] = RemoteState

C23_PresenceUpdatesStatusOnly ==
  \A domain \in {Domain, "d2"} : \A agent \in {AgentName, PeerAgent} : \A json \in PresenceInfos :
    PresenceApplied(domain, agent, json)

C23_Witness ==
  /\ PeerAgent \in GetAvailableAgents(domains, Domain)
  /\ AgentName \in GetAvailableAgents(domains, Domain)
  /\ domains[Domain].agents[PeerAgent].status = "offline"
  /\ domains[Domain].agents[PeerAgent].classes # EmptyMap
  /\ domains[Domain].agents[AgentName].classes # EmptyMap
  /\ \E i \in 1..Len(emitted) : emitted[i].event = "agent" /\ emitted[i].status = "offline"

\* C24: a persistent tunnel entry (an on-style callback or an emitter's event) stays
\* through its deliveries and is gone once delete() of its proxy has resolved: the
\* table holds no such entry of the proxy and a message on its tunnel id invokes
\* nothing.
PersistentOf(p) ==
  {id \in DOMAIN listeners :
     \E l \in Range(listeners[id]) :
       /\ l.kind \in {"callback", "emitter"} /\ ~l.once
       /\ \E c \in DOMAIN calls : calls[c].proxy = p /\ id \in calls[c].tunnels}

C24_PersistentTunnelGoneAfterDelete ==
  \A c \in DOMAIN calls :
    (calls[c].target # -1 /\ calls[c].stage = "resolved") =>
      /\ PersistentOf(calls[c].target) = {}
      /\ \A id \in PersistentOf(calls[c].target) : \A data \in TunnelData :
           After(id, data).invoked = invoked

\* C25: when the reply of a successful creation is out, the Agent has subscribed every
\* topic a method of the new instance's proxy publishes to, so a call published on
\* receipt of the reply reaches the Agent.
Created(reply) ==
  /\ reply.payload.method \in {"__create__", "__createNamed__"}
  /\ "r" \in DOMAIN reply.payload.data

C25_ProxyCallsReachAgentAfterCreate ==
  agentConn = "online" =>
    \A i \in 1..Len(agentOut) :
      Created(agentOut[i]) =>
        ProxyTopics(agentOut[i].payload.targetId, agentOut[i].payload.data["r"]) \subseteq agentSubs

\* The same for the topics the Agent itself names: those are subscribed.
AgentTopicsSubscribedAfterCreate ==
  agentConn = "online" =>
    \A i \in 1..Len(agentOut) :
      Created(agentOut[i]) =>
        MethodTopics(agentOut[i].payload.targetId, agentOut[i].payload.data["r"]) \subseteq agentSubs

C27_ProxyWithoutClassInfo ==
  \A c \in DOMAIN calls :
    (calls[c].via = "_getProxy" /\ calls[c].stage = "waiting") =>
      \A data \in {d \in ReplyData : "e" \notin DOMAIN d} :
        LET st == After(CorrId(c), data)
        IN st.calls[c].stage = "resolved" /\ c \in DOMAIN st.proxies

\* C28: once a call has been rejected (by its timeout or by an error reply), the table
\* holds no one-shot tunnel entry that the call's callback arguments registered.
OneShotLeft(c) ==
  {id \in calls[c].tunnels :
     \E l \in Range(ListenersOf(listeners, id)) : l.kind = "callback" /\ l.once}

C28_NoOneShotTunnelAfterFailure ==
  \A c \in DOMAIN calls : calls[c].stage = "rejected" => OneShotLeft(c) = {}

====
